---------------------------- MODULE Spec2Model ----------------------------
(***************************************************************************)
(* Model of the credis protocol engine (src/credis.c): the shared          *)
(* send/receive buffer, cr_findnl, cr_moremem, cr_readln, the reply        *)
(* decoders and cr_sendfandreceive, together with a socket peer that       *)
(* delivers the reply bytes in arbitrary pieces.                           *)
(*                                                                         *)
(* Bytes are their ASCII codes.  A pointer into the buffer is a record     *)
(* [base, off]: base names the allocation realloc() returned, off the      *)
(* offset from buf->data.  A command call is split at the points where it  *)
(* waits for its environment: realloc(), send() and select()/recv().       *)
(* conn holds what credis_connect has allocated and opened so far.         *)
(*                                                                         *)
(* CR_BUFFER_SIZE (4096 in the source) and CR_MULTIBULK_SIZE (64) are      *)
(* scaled down so that buffer growth and full arrays are within reach of   *)
(* exhaustive search; every formula of the code that uses them is kept.    *)
(***************************************************************************)
EXTENDS Integers, Sequences, FiniteSets, TLC

VARIABLES buf, reply, call, net, hist, heap, conn

vars == <<buf, reply, call, net, hist, heap, conn>>

---------------------------------------------------------------------------
(* Program constants *)

CR == 13
LF == 10
NUL == 0

CR_ERROR == 45
CR_INLINE == 43
CR_BULK == 36
CR_MULTIBULK == 42
CR_INT == 58

CR_BUFFER_SIZE == 20
CR_MULTIBULK_SIZE == 2
SIZEOF_PTR == 2

CREDIS_ERR_NOMEM == -91
CREDIS_ERR_SEND == -94
CREDIS_ERR_RECV == -95
CREDIS_ERR_TIMEOUT == -96
CREDIS_ERR_PROTOCOL == -97

(* Bounds of the model *)

MaxPayload == 2
LongKeyLen == 16
MaxCmds == 2

---------------------------------------------------------------------------
(* Memory *)

NULL == [base |-> -1, off |-> 0]
WILD == [base |-> -2, off |-> 0]

Ptr(b, o) == [base |-> b, off |-> o]

Min(a, b) == IF a < b THEN a ELSE b

(* The content of memory the program never wrote: fresh malloc()/realloc() *)
(* storage and the bytes around the buffer.  heap = 0: zero pages;         *)
(* heap = 1: CR at the even offsets and LF at the odd ones.                *)
Garbage(h, i) == IF h = 0 THEN NUL ELSE IF i % 2 = 0 THEN CR ELSE LF

(* *(buf->data + i) *)
ByteAt(b, h, i) ==
  IF i \in 0..(b.size - 1) THEN b.data[i + 1] ELSE Garbage(h, i)

(* memcpy(buf->data + at, bytes, Len(bytes)), within the allocation *)
Store(data, at, bytes) ==
  [k \in 1..Len(data) |->
     IF k - 1 \in at..(at + Len(bytes) - 1) THEN bytes[k - at] ELSE data[k]]

RECURSIVE cr_findnl(_, _, _, _)
cr_findnl(b, h, p, len) ==
  IF len - 1 < 0 THEN <<>>
  ELSE IF ByteAt(b, h, p) = CR /\ ByteAt(b, h, p + 1) = LF THEN <<p>>
  ELSE cr_findnl(b, h, p + 1, len - 1)

(* The offsets from buf->data of the bytes that cr_findnl(p, len) reads *)
RECURSIVE cr_findnl_reads(_, _, _, _)
cr_findnl_reads(b, h, p, len) ==
  IF len - 1 < 0 THEN {}
  ELSE IF ByteAt(b, h, p) = CR
    THEN {p, p + 1} \cup (IF ByteAt(b, h, p + 1) = LF THEN {}
                          ELSE cr_findnl_reads(b, h, p + 1, len - 1))
  ELSE {p} \cup cr_findnl_reads(b, h, p + 1, len - 1)

IsSpace(c) == c \in {32, 9, 10, 11, 12, 13}
IsDigit(c) == c \in 48..57

RECURSIVE AtoiDigits(_, _, _, _)
AtoiDigits(b, h, p, acc) ==
  IF IsDigit(ByteAt(b, h, p)) /\ p < b.size
    THEN AtoiDigits(b, h, p + 1, acc * 10 + (ByteAt(b, h, p) - 48))
    ELSE acc

RECURSIVE AtoiSkip(_, _, _)
AtoiSkip(b, h, p) ==
  IF IsSpace(ByteAt(b, h, p)) /\ p < b.size THEN AtoiSkip(b, h, p + 1) ELSE p

(* atoi(line): white space, an optional sign, then digits up to the first *)
(* other byte.  The scan is cut at the end of the allocation, where the    *)
(* memory content is not the program's.                                    *)
atoi(b, h, p) ==
  LET q == AtoiSkip(b, h, p)
      c == ByteAt(b, h, q)
  IN  IF c = 45 THEN 0 - AtoiDigits(b, h, q + 1, 0)
      ELSE IF c = 43 THEN AtoiDigits(b, h, q + 1, 0)
      ELSE AtoiDigits(b, h, q, 0)

(* cr_moremem with malloc() in the place of realloc(): the new storage    *)
(* does not carry the old bytes                                            *)
cr_moremem_fresh(b, h, size, ok, moved) ==
  LET n == (size \div CR_BUFFER_SIZE) + 1
      total == b.size + n * CR_BUFFER_SIZE
  IN  IF ~ok THEN [rc |-> -1, buf |-> b]
      ELSE [rc |-> 0,
            buf |-> [b EXCEPT !.data = [k \in 1..total |-> Garbage(h, k - 1)],
                              !.size = total,
                              !.base = b.base + 1]]

(* cr_moremem that raises buf->size before it looks at realloc()'s result *)
cr_moremem_partial(b, h, size, ok, moved) ==
  LET n == (size \div CR_BUFFER_SIZE) + 1
      total == b.size + n * CR_BUFFER_SIZE
  IN  IF ~ok THEN [rc |-> -1, buf |-> [b EXCEPT !.size = total]]
      ELSE [rc |-> 0,
            buf |-> [b EXCEPT
                       !.data = [k \in 1..total |->
                                   IF k <= b.size THEN b.data[k]
                                   ELSE Garbage(h, k - 1)],
                       !.size = total,
                       !.base = IF moved THEN b.base + 1 ELSE b.base]]

(* cr_moremem that rounds the number of chunks down *)
cr_moremem_floor(b, h, size, ok, moved) ==
  LET n == size \div CR_BUFFER_SIZE
      total == b.size + n * CR_BUFFER_SIZE
  IN  IF ~ok THEN [rc |-> -1, buf |-> b]
      ELSE [rc |-> 0,
            buf |-> [b EXCEPT
                       !.data = [k \in 1..total |->
                                   IF k <= b.size THEN b.data[k]
                                   ELSE Garbage(h, k - 1)],
                       !.size = total,
                       !.base = IF moved THEN b.base + 1 ELSE b.base]]

(* cr_moremem(buf, size); ok and moved are realloc()'s outcome *)
cr_moremem(b, h, size, ok, moved) ==
  LET n == (size \div CR_BUFFER_SIZE) + 1
      total == b.size + n * CR_BUFFER_SIZE
  IN  IF ~ok THEN [rc |-> -1, buf |-> b]
      ELSE [rc |-> 0,
            buf |-> [b EXCEPT
                       !.data = [k \in 1..total |->
                                   IF k <= b.size THEN b.data[k]
                                   ELSE Garbage(h, k - 1)],
                       !.size = total,
                       !.base = IF moved THEN b.base + 1 ELSE b.base]]


---------------------------------------------------------------------------
(* One command call.  s = [buf, reply, call, hist, heap] is the state of   *)
(* the connection and of the call in progress; each operator below runs    *)
(* the code from one point to the next wait or to the return.              *)

Bump(n) == Min(n + 1, 2)

CREDIS_TYPE_NONE == 1
CREDIS_TYPE_STRING == 2
CREDIS_TYPE_LIST == 3
CREDIS_TYPE_SET == 4

(* The zero-terminated string at buf->data + off *)
RECURSIVE CStr(_, _, _)
CStr(b, h, off) ==
  IF off \notin 0..(b.size - 1) \/ ByteAt(b, h, off) = NUL THEN <<>>
  ELSE <<ByteAt(b, h, off)>> \o CStr(b, h, off + 1)

(* credis_type: the strcmp chain on t = reply.bulk *)
credis_type_rc(s) ==
  LET t == CStr(s.buf, s.heap, s.reply.bulk.off)
  IN  IF t = <<115, 116, 114, 105, 110, 103>> THEN CREDIS_TYPE_STRING
      ELSE IF t = <<108, 105, 115, 116>> THEN CREDIS_TYPE_LIST
      ELSE IF t = <<115, 101, 116>> THEN CREDIS_TYPE_SET
      ELSE CREDIS_TYPE_NONE

(* The field of the reply slot that a command function reads after         *)
(* cr_sendfandreceive returned 0                                          *)
ReadField(unpack) ==
  IF unpack \in {"int", "zero", "lrem"} THEN "integer"
  ELSE IF unpack \in {"bulk", "type"} THEN "bulk"
  ELSE IF unpack = "multi" THEN "multibulk"
  ELSE "none"

(* The access outside every allocation the call owns, below *)
Undefined(s) == [s EXCEPT !.call.pc = "ub"]

(* The command function returns to its caller: rc is the result of        *)
(* cr_sendfandreceive, or 0 when it was not called.                        *)
Finish(s, rc) ==
  LET unpack == s.call.cmd.unpack
      read == IF rc = 0 THEN ReadField(unpack) ELSE "none"
  IN  IF rc = 0 /\ unpack = "type" /\ s.reply.bulk.base # s.buf.base
        THEN Undefined([s EXCEPT !.hist.read = read])
        ELSE [s EXCEPT
                !.call.pc = "idle",
                !.hist.returned = TRUE,
                !.hist.read = read,
                !.hist.rc = IF rc # 0 THEN rc
                            ELSE IF unpack = "multi" THEN s.reply.len
                            ELSE IF unpack = "zero" /\ s.reply.integer = 0 THEN -1
                            ELSE IF unpack = "lrem" THEN s.reply.integer
                            ELSE IF unpack = "type" THEN credis_type_rc(s)
                            ELSE rc,
                !.hist.decrc = rc]

(* The line of n bytes that cr_readln found at p, or the nil marker, is    *)
(* handed to the caller as a value of the reply.                           *)
Decoded(s, p, n) ==
  IF p # NULL /\ ~s.call.found THEN s
  ELSE [s EXCEPT !.hist.dec =
          Append(@, [p |-> p,
                     bytes |-> [k \in 1..n |->
                                  ByteAt(s.buf, s.heap, p.off + k - 1)]])]

RECURSIVE cr_readln(_, _, _, _)

(* for ( ; bnum && cr_readln(rhnd, 0, &line) > 0; bnum--): the test of     *)
(* bnum, and what follows the loop.                                        *)
cr_receivemultibulk_loop(s) ==
  IF s.call.bnum # 0
    THEN cr_readln(s, "mbhead", 0, s.call.line)
    ELSE Finish([s EXCEPT !.reply.len = s.call.i,
                          !.hist.wrote = @ \cup {"multibulk"}], 0)

(* The store without the increment of i: every element lands in bulks[0] *)
cr_receivemultibulk_store_noinc(s, p) ==
  IF s.call.i + 1 \in 1..Len(s.reply.bulks)
    THEN cr_receivemultibulk_loop(
           [Decoded(s, p, IF p = NULL THEN 0 ELSE s.call.blen)
              EXCEPT !.reply.bulks[s.call.i + 1] = p,
                     !.call.bnum = s.call.bnum - 1])
    ELSE Undefined(s)

(* bulks[i++] = p, then bnum-- *)
cr_receivemultibulk_store(s, p) ==
  IF s.call.i + 1 \in 1..Len(s.reply.bulks)
    THEN cr_receivemultibulk_loop(
           [Decoded(s, p, IF p = NULL THEN 0 ELSE s.call.blen)
              EXCEPT !.reply.bulks[s.call.i + 1] = p,
                     !.call.i = s.call.i + 1,
                     !.call.bnum = s.call.bnum - 1])
    ELSE Undefined(s)

(* The loop body, entered with the result of cr_readln(rhnd, 0, &line). *)
cr_receivemultibulk_head(s, rc, line) ==
  IF rc > 0
    THEN IF ByteAt(s.buf, s.heap, line.off) # CR_BULK
           THEN Finish(s, CREDIS_ERR_PROTOCOL)
           ELSE LET l1 == Ptr(line.base, line.off + 1)
                    blen == atoi(s.buf, s.heap, l1.off)
                    s1 == [s EXCEPT !.call.blen = blen, !.call.line = l1]
                IN  IF blen = -1
                      THEN cr_receivemultibulk_store(s1, NULL)
                      ELSE cr_readln(s1, "mbbody", blen, l1)
    ELSE IF s.call.bnum # 0
           THEN Finish(s, CREDIS_ERR_PROTOCOL)
           ELSE Finish([s EXCEPT !.reply.len = s.call.i,
                                 !.hist.wrote = @ \cup {"multibulk"}], 0)

(* if (cr_readln(rhnd, blen, &line) != blen) return CREDIS_ERR_PROTOCOL *)
cr_receivemultibulk_body(s, rc, line) ==
  IF rc # s.call.blen
    THEN Finish(s, CREDIS_ERR_PROTOCOL)
    ELSE cr_receivemultibulk_store([s EXCEPT !.call.line = line], line)

(* cr_receivemultibulk up to its realloc() *)
cr_receivemultibulk(s, line) ==
  LET bnum == atoi(s.buf, s.heap, line.off)
      s1 == [s EXCEPT !.call.bnum = bnum, !.call.i = 0, !.call.line = line]
  IN  IF bnum > s.reply.size
        THEN [s1 EXCEPT !.call.pc = "alloc", !.call.site = "mb"]
        ELSE cr_receivemultibulk_loop(s1)

(* bulks = realloc(bulks, nsize) has returned *)
cr_receivemultibulk_realloc(s, ok) ==
  LET nsize == ((s.call.bnum \div CR_MULTIBULK_SIZE) + 1) * CR_MULTIBULK_SIZE
      n == nsize \div SIZEOF_PTR
      old == s.reply.bulks
  IN  cr_receivemultibulk_loop(
        [s EXCEPT !.reply.bulks =
                    IF ok THEN [k \in 1..n |-> IF k <= Len(old) THEN old[k] ELSE WILD]
                    ELSE <<>>])

cr_receivebulk(s, line) ==
  LET blen == atoi(s.buf, s.heap, line.off)
  IN  cr_readln([s EXCEPT !.call.blen = blen], "bulk", blen, line)

(* if (cr_readln(rhnd, blen, &line) >= 0) { reply.bulk = line; return 0; } *)
cr_receivebulk_ret(s, rc, line) ==
  IF rc >= 0
    THEN Finish([Decoded(s, line, rc) EXCEPT !.reply.bulk = line,
                                             !.hist.wrote = @ \cup {"bulk"}], 0)
    ELSE Finish(s, CREDIS_ERR_PROTOCOL)

cr_receiveinline(s, line) ==
  Finish([s EXCEPT !.reply.line = line, !.hist.wrote = @ \cup {"line"}], 0)

cr_receiveint(s, line) ==
  Finish([s EXCEPT !.reply.integer = atoi(s.buf, s.heap, line.off),
                   !.hist.wrote = @ \cup {"integer"}], 0)

(* The error line treated like a status line: stored, and success returned *)
cr_receiveerror_asinline(s, line) == Finish([s EXCEPT !.reply.line = line], 0)

cr_receiveerror(s, line) ==
  Finish([s EXCEPT !.reply.line = line, !.hist.wrote = @ \cup {"line"}],
         CREDIS_ERR_PROTOCOL)

(* The dispatch on the prefix without the comparison with recvtype *)
cr_receivereply_line_nocheck(s, rc, line) ==
  IF rc > 0
    THEN LET prefix == ByteAt(s.buf, s.heap, line.off)
             l1 == Ptr(line.base, line.off + 1)
         IN  IF prefix = CR_ERROR THEN cr_receiveerror(s, l1)
             ELSE IF prefix = CR_INLINE THEN cr_receiveinline(s, l1)
             ELSE IF prefix = CR_INT THEN cr_receiveint(s, l1)
             ELSE IF prefix = CR_BULK THEN cr_receivebulk(s, l1)
             ELSE IF prefix = CR_MULTIBULK THEN cr_receivemultibulk(s, l1)
             ELSE Finish(s, CREDIS_ERR_RECV)
    ELSE Finish(s, CREDIS_ERR_RECV)

(* cr_receivereply after its cr_readln(rhnd, 0, &line) *)
cr_receivereply_line(s, rc, line) ==
  IF rc > 0
    THEN LET prefix == ByteAt(s.buf, s.heap, line.off)
             l1 == Ptr(line.base, line.off + 1)
         IN  IF prefix # s.call.cmd.recvtype /\ prefix # CR_ERROR
               THEN Finish(s, CREDIS_ERR_PROTOCOL)
             ELSE IF prefix = CR_ERROR THEN cr_receiveerror(s, l1)
             ELSE IF prefix = CR_INLINE THEN cr_receiveinline(s, l1)
             ELSE IF prefix = CR_INT THEN cr_receiveint(s, l1)
             ELSE IF prefix = CR_BULK THEN cr_receivebulk(s, l1)
             ELSE IF prefix = CR_MULTIBULK THEN cr_receivemultibulk(s, l1)
             ELSE Finish(s, CREDIS_ERR_RECV)
    ELSE Finish(s, CREDIS_ERR_RECV)

(* cr_readln returns rc, with *line = line, to the call site it came from *)
cr_readln_return(s, rc, line) ==
  IF s.call.kind = "first" THEN cr_receivereply_line(s, rc, line)
  ELSE IF s.call.kind = "bulk" THEN cr_receivebulk_ret(s, rc, line)
  ELSE IF s.call.kind = "mbhead" THEN cr_receivemultibulk_head(s, rc, line)
  ELSE cr_receivemultibulk_body(s, rc, line)

(* cr_readln from the terminator on: *nl = '\0', the line and the cursor *)
cr_readln_found(s, nl) ==
  IF nl \notin 0..(s.buf.size - 1)
    THEN Undefined(s)
    ELSE LET line == Ptr(s.buf.base, s.buf.idx)
             len == nl - s.buf.idx
         IN  cr_readln_return(
               [s EXCEPT !.buf.data[nl + 1] = NUL,
                         !.buf.idx = nl + 2,
                         !.call.found = TRUE,
                         !.hist.nlines = Bump(s.hist.nlines),
                         !.hist.mismatch =
                            \/ s.hist.mismatch
                            \/ /\ s.call.kind \in {"bulk", "mbbody"}
                               /\ s.call.start >= 0
                               /\ len # s.call.start],
               len, line)

(* cr_receivedata(fd, timeout, buf->data + buf->len, avail) is called *)
cr_readln_receive(s) ==
  [s EXCEPT !.call.pc = "recv",
            !.call.at = s.buf.len,
            !.call.avail = s.buf.size - s.buf.len,
            !.hist.nrecv = Bump(s.hist.nrecv),
            !.hist.recvAfterLine = s.hist.recvAfterLine \/ s.hist.nlines > 0]

(* The loop of cr_readln that calls cr_receivedata without looking at the  *)
(* free space first                                                       *)
cr_readln_scan_nogrow(s) ==
  LET b == s.buf
      nl == cr_findnl(b, s.heap, b.idx + s.call.start, b.len - b.idx)
  IN  IF nl # <<>> THEN cr_readln_found(s, nl[1]) ELSE cr_readln_receive(s)

(* One test of the while loop of cr_readln and, when no terminator is     *)
(* found, the check of the free space.                                    *)
cr_readln_scan(s) ==
  LET b == s.buf
      nl == cr_findnl(b, s.heap, b.idx + s.call.start, b.len - b.idx)
      avail == b.size - b.len
      reads == cr_findnl_reads(b, s.heap, b.idx + s.call.start, b.len - b.idx)
      s1 == [s EXCEPT !.hist.overscan =
                        s.hist.overscan \/ \E i \in reads : i < 0 \/ i >= b.len]
  IN  IF nl # <<>> THEN cr_readln_found(s1, nl[1])
      ELSE IF avail < (CR_BUFFER_SIZE \div 10)
        THEN [s1 EXCEPT !.call.pc = "alloc", !.call.site = "readln"]
        ELSE cr_readln_receive(s1)

(* The loop of cr_readln that goes on to the next cr_receivedata when the  *)
(* last one returned no byte, instead of returning 0 or -1                 *)
cr_readln_received_retry(s0, rc) ==
  LET s == [s0 EXCEPT !.call.at = 0, !.call.avail = 0]
      b == [s.buf EXCEPT !.len = s.buf.len + rc]
  IN  IF rc > 0
        THEN cr_readln_scan(
               [s EXCEPT !.buf = b,
                         !.hist.advanced =
                            /\ s.hist.advanced
                            /\ b.len = s0.call.at + rc
                            /\ b.len <= b.size])
        ELSE cr_readln_scan(s)

(* cr_readln after cr_receivedata has returned rc: buf->len += rc and the  *)
(* next test of the loop, or the return of 0 or -1                         *)
cr_readln_received(s0, rc) ==
  LET s == [s0 EXCEPT !.call.at = 0, !.call.avail = 0]
      b == [s.buf EXCEPT !.len = s.buf.len + rc]
  IN  IF rc > 0
        THEN cr_readln_scan(
               [s EXCEPT !.buf = b,
                         !.hist.advanced =
                            /\ s.hist.advanced
                            /\ b.len = s0.call.at + rc
                            /\ b.len <= b.size])
      ELSE IF rc = 0 THEN cr_readln_return(s, 0, s.call.line)
      ELSE cr_readln_return(s, -1, s.call.line)

(* cr_readln(rhnd, start, &line) called from the call site kind *)
cr_readln(s, kind, start, line) ==
  LET b == s.buf
      reset == b.len = 0 \/ b.idx >= b.len
  IN  cr_readln_scan(
        [s EXCEPT !.buf.idx = IF reset THEN 0 ELSE b.idx,
                  !.buf.len = IF reset THEN 0 ELSE b.len,
                  !.call.kind = kind,
                  !.call.start = start,
                  !.call.found = FALSE,
                  !.call.line = line,
                  !.hist.midreset =
                     s.hist.midreset \/ (reset /\ kind # "first" /\ b.len > 0)])

(* cr_receivereply: reset the buffer and read the first line *)
cr_receivereply(s) ==
  cr_readln([s EXCEPT !.buf.len = 0, !.buf.idx = 0], "first", 0, NULL)

---------------------------------------------------------------------------
(* The peer: the wire format of the replies a server sends *)

CRLF == <<CR, LF>>

RECURSIVE Itoa(_)
Itoa(n) ==
  IF n < 0 THEN <<45>> \o Itoa(0 - n)
  ELSE IF n < 10 THEN <<48 + n>>
  ELSE Itoa(n \div 10) \o <<48 + (n % 10)>>

RECURSIVE Flat(_)
Flat(ss) == IF ss = <<>> THEN <<>> ELSE Head(ss) \o Flat(Tail(ss))

(* A bulk value: nil, or a payload of bytes *)
Nil == [nil |-> TRUE, pl |-> <<>>]
Val(p) == [nil |-> FALSE, pl |-> p]

(* "$N CRLF payload CRLF" with the declared length n, "$-1 CRLF" for nil *)
BulkWireDecl(n, e) ==
  IF e.nil THEN <<CR_BULK>> \o Itoa(-1) \o CRLF
  ELSE <<CR_BULK>> \o Itoa(n) \o CRLF \o e.pl \o CRLF

BulkWire(e) == BulkWireDecl(Len(e.pl), e)

LineReply(tag, text) ==
  [wire |-> <<tag>> \o text \o CRLF, tag |-> tag, wf |-> TRUE,
   count |-> 1, elems |-> <<Val(text)>>]

BulkReply(e) ==
  [wire |-> BulkWire(e), tag |-> CR_BULK, wf |-> TRUE,
   count |-> 1, elems |-> <<e>>]

(* A bulk reply whose declared length n is not the payload's length *)
BadBulkReply(n, e) ==
  [wire |-> BulkWireDecl(n, e), tag |-> CR_BULK, wf |-> FALSE,
   count |-> 1, elems |-> <<e>>]

MultiReply(es) ==
  [wire |-> <<CR_MULTIBULK>> \o Itoa(Len(es)) \o CRLF
            \o Flat([k \in 1..Len(es) |-> BulkWire(es[k])]),
   tag |-> CR_MULTIBULK, wf |-> TRUE, count |-> Len(es), elems |-> es]

(* A multi-bulk reply announcing m elements and followed by the bytes body *)
BadMultiReply(m, es, body) ==
  [wire |-> <<CR_MULTIBULK>> \o Itoa(m) \o CRLF \o body,
   tag |-> CR_MULTIBULK, wf |-> FALSE, count |-> m, elems |-> es]

(* The reply r of which the peer does not send the final CR LF *)
Stalled(r) ==
  [r EXCEPT !.wire = SubSeq(r.wire, 1, Len(r.wire) - 2), !.wf = FALSE]

NoReply ==
  [wire |-> <<>>, tag |-> NUL, wf |-> FALSE, count |-> 0, elems |-> <<>>]

SeqsUpTo(S, n) == UNION {[1..k -> S] : k \in 0..n}

(* Payloads of up to MaxPayload bytes, CR and LF among them *)
Payloads == SeqsUpTo({97, CR, LF}, MaxPayload)

(* Payloads of multi-bulk elements: n letters, or one CR LF pair *)
ElemPayloads == {[k \in 1..n |-> 97] : n \in 0..MaxPayload} \cup {CRLF}

Elems == {Nil} \cup {Val(p) : p \in ElemPayloads}

OK == <<79, 75>>
ERR == <<69, 82, 82>>

BulkReplies ==
  {BulkReply(Val(p)) : p \in Payloads} \cup {BulkReply(Nil)}

BadBulkReplies ==
  {BadBulkReply(n, Val(p)) : n \in 0..(MaxPayload + 1), p \in {<<97>>, <<97, 97, 97>>}}

MultiReplies ==
  {MultiReply(es) : es \in SeqsUpTo(Elems, CR_MULTIBULK_SIZE)}

BadMultiReplies ==
  { BadMultiReply(1, <<Val(OK)>>, <<CR_INLINE>> \o OK \o CRLF),
    BadMultiReply(1, <<Val(<<97>>)>>, BulkWireDecl(0, Val(<<97>>))),
    BadMultiReply(1, <<Val(<<97>>)>>, BulkWireDecl(2, Val(<<97>>))),
    BadMultiReply(2, <<Nil>>, BulkWire(Nil)),
    BadMultiReply(CR_MULTIBULK_SIZE + 1, <<Nil, Nil, Nil>>,
                  BulkWire(Nil) \o BulkWire(Nil) \o BulkWire(Nil)),
    BadMultiReply(1, <<Val(<<97>>)>>, BulkWireDecl(-2, Val(<<97>>))),
    BadMultiReply(-1, <<Nil>>, BulkWire(Nil)),
    BadMultiReply(-1, <<>>, <<>>) }

LineReplies ==
  { LineReply(CR_INLINE, OK), LineReply(CR_ERROR, ERR),
    LineReply(CR_INT, Itoa(1)), LineReply(CR_INT, Itoa(0)) }

---------------------------------------------------------------------------
(* The command functions *)

Key == <<107>>
LongKey == [k \in 1..LongKeyLen |-> 107]

(* Keys around the length at which a command stops fitting the buffer *)
KeyOf(n) == [k \in 1..n |-> 107]
FmtKeys == {KeyOf(n) : n \in {1} \cup ((LongKeyLen - 3)..LongKeyLen)}

(* The key with which "GET %s\r\n" and its terminating zero exceed the     *)
(* buffer by exactly CR_BUFFER_SIZE bytes                                  *)
ChunkKey == KeyOf(2 * CR_BUFFER_SIZE - 7)

(* credis_get: "GET %s\r\n" *)
credis_get(key) ==
  [name |-> "GET", wire |-> <<71, 69, 84, 32>> \o key \o CRLF,
   recvtype |-> CR_BULK, unpack |-> "bulk", issue |-> TRUE, parts |-> <<>>]

(* credis_keys: "KEYS %s\r\n" *)
credis_keys(pattern) ==
  [name |-> "KEYS", wire |-> <<75, 69, 89, 83, 32>> \o pattern \o CRLF,
   recvtype |-> CR_MULTIBULK, unpack |-> "multi", issue |-> TRUE, parts |-> <<>>]

MGET == <<77, 71, 69, 84>>

(* credis_mget: "MGET", then cr_appendstr of every key and of "\r\n", each  *)
(* appended as " %s".  parts are the strings appended, wire the command    *)
(* they are meant to add up to.                                            *)
credis_mget(keyv) ==
  LET parts == keyv \o <<CRLF>>
  IN  [name |-> "MGET",
       wire |-> MGET \o Flat([j \in 1..Len(parts) |-> <<32>> \o parts[j]]),
       recvtype |-> CR_MULTIBULK, unpack |-> "multi", issue |-> TRUE,
       parts |-> parts]

(* credis_ping: "PING\r\n" *)
credis_ping ==
  [name |-> "PING", wire |-> <<80, 73, 78, 71>> \o CRLF,
   recvtype |-> CR_INLINE, unpack |-> "rc", issue |-> TRUE, parts |-> <<>>]

INCR == <<73, 78, 67, 82>>
DECR == <<68, 69, 67, 82>>
SP == <<32>>

(* cr_incr: "%s %s\r\n" when incr or decr is 1, "%s %s %d\r\n" when one of  *)
(* them is above 1, and otherwise no call of cr_sendfandreceive: issue is  *)
(* FALSE and rc stays 0.                                                   *)
cr_incr(incr, decr, key) ==
  LET verb == IF incr > 0 THEN INCR ELSE DECR
  IN  IF incr = 1 \/ decr = 1
        THEN [name |-> "INCR", wire |-> verb \o SP \o key \o CRLF,
              recvtype |-> CR_INT, unpack |-> "int", issue |-> TRUE, parts |-> <<>>]
      ELSE IF incr > 1 \/ decr > 1
        THEN [name |-> "INCRBY",
              wire |-> verb \o <<66, 89>> \o SP \o key \o SP
                       \o Itoa(IF incr > 0 THEN incr ELSE decr) \o CRLF,
              recvtype |-> CR_INT, unpack |-> "int", issue |-> TRUE, parts |-> <<>>]
      ELSE [name |-> "INCRBY", wire |-> <<>>,
            recvtype |-> CR_INT, unpack |-> "int", issue |-> FALSE, parts |-> <<>>]

credis_incr(key) == cr_incr(1, 0, key)
credis_decr(key) == cr_incr(0, 1, key)
credis_incrby(key, incr_val) == cr_incr(incr_val, 0, key)
credis_decrby(key, decr_val) == cr_incr(0, decr_val, key)

(* The commands that map the integer reply 0 to -1.  credis_setnx:         *)
(* "SETNX %s %d\r\n%s\r\n", sent with CR_INLINE as the expected type.      *)
credis_setnx(key, val) ==
  [name |-> "SETNX",
   wire |-> <<83, 69, 84, 78, 88>> \o SP \o key \o SP \o Itoa(Len(val)) \o CRLF
            \o val \o CRLF,
   recvtype |-> CR_INLINE, unpack |-> "zero", issue |-> TRUE, parts |-> <<>>]

(* credis_exists: "EXISTS %s\r\n" *)
credis_exists(key) ==
  [name |-> "EXISTS", wire |-> <<69, 88, 73, 83, 84, 83>> \o SP \o key \o CRLF,
   recvtype |-> CR_INT, unpack |-> "zero", issue |-> TRUE, parts |-> <<>>]

(* credis_del: "DEL %s\r\n" *)
credis_del(key) ==
  [name |-> "DEL", wire |-> <<68, 69, 76>> \o SP \o key \o CRLF,
   recvtype |-> CR_INT, unpack |-> "zero", issue |-> TRUE, parts |-> <<>>]

(* credis_renamenx: "RENAMENX %s %s\r\n" *)
credis_renamenx(key, new_key_name) ==
  [name |-> "RENAMENX",
   wire |-> <<82, 69, 78, 65, 77, 69, 78, 88>> \o SP \o key \o SP
            \o new_key_name \o CRLF,
   recvtype |-> CR_INT, unpack |-> "zero", issue |-> TRUE, parts |-> <<>>]

(* credis_expire: "EXPIRE %s %d\r\n" *)
credis_expire(key, secs) ==
  [name |-> "EXPIRE",
   wire |-> <<69, 88, 80, 73, 82, 69>> \o SP \o key \o SP \o Itoa(secs) \o CRLF,
   recvtype |-> CR_INT, unpack |-> "zero", issue |-> TRUE, parts |-> <<>>]

(* credis_move: "MOVE %s %d\r\n" *)
credis_move(key, index) ==
  [name |-> "MOVE",
   wire |-> <<77, 79, 86, 69>> \o SP \o key \o SP \o Itoa(index) \o CRLF,
   recvtype |-> CR_INT, unpack |-> "zero", issue |-> TRUE, parts |-> <<>>]

(* credis_type: "TYPE %s\r\n" *)
credis_type(key) ==
  [name |-> "TYPE", wire |-> <<84, 89, 80, 69>> \o SP \o key \o CRLF,
   recvtype |-> CR_INLINE, unpack |-> "type", issue |-> TRUE, parts |-> <<>>]

(* credis_lrem: "LREM %s %d %d\r\n", sent with CR_BULK as expected type *)
credis_lrem(key, count, val) ==
  [name |-> "LREM",
   wire |-> <<76, 82, 69, 77>> \o SP \o key \o SP \o Itoa(count) \o SP
            \o Itoa(val) \o CRLF,
   recvtype |-> CR_BULK, unpack |-> "lrem", issue |-> TRUE, parts |-> <<>>]

(* The six of them, as the program calls them *)
FlagCommands ==
  { credis_setnx(Key, <<118>>), credis_exists(Key), credis_del(Key),
    credis_renamenx(Key, Key), credis_expire(Key, 1), credis_move(Key, 1) }

NoCmd ==
  [name |-> "", wire |-> <<>>, recvtype |-> NUL, unpack |-> "rc", issue |-> TRUE, parts |-> <<>>]

(* What is explored: the commands the program issues, the replies the     *)
(* server gives, and how many commands one connection sees.               *)
Scenarios == {"seq", "bulk", "multi", "tags", "int", "grow", "slot"}

Commands(scn) ==
  IF scn = "bulk" THEN {credis_get(Key), credis_get(LongKey)}
  ELSE IF scn = "multi" THEN {credis_keys(Key), credis_keys(LongKey)}
  ELSE IF scn = "tags"
    THEN {credis_ping, credis_get(Key), credis_incr(Key), credis_keys(Key),
          credis_get(LongKey)}
  ELSE IF scn = "grow"
    THEN {credis_get(key) : key \in FmtKeys \cup {ChunkKey}}
         \cup {credis_mget(<<key>>) : key \in FmtKeys}
         \cup {credis_mget(<<key, LongKey>>) : key \in FmtKeys}
  ELSE IF scn = "slot"
    THEN {credis_type(Key), credis_lrem(Key, 1, 1), credis_setnx(Key, <<118>>),
          credis_get(Key), credis_exists(Key), credis_keys(Key), credis_ping,
          credis_get(LongKey)}
  ELSE IF scn = "int"
    THEN FlagCommands
         \cup {credis_incr(Key), credis_decr(Key), credis_exists(LongKey)}
         \cup {credis_incrby(Key, v) : v \in -1..2}
         \cup {credis_decrby(Key, v) : v \in -1..2}
  ELSE {credis_ping, credis_get(Key), credis_get(LongKey)}

Replies(scn) ==
  IF scn = "bulk"
    THEN BulkReplies \cup BadBulkReplies
         \cup {LineReply(CR_INLINE, OK), LineReply(CR_ERROR, ERR)}
  ELSE IF scn = "multi"
    THEN MultiReplies \cup BadMultiReplies \cup {LineReply(CR_ERROR, ERR)}
  ELSE IF scn = "tags"
    THEN LineReplies
         \cup {BulkReply(Val(<<97>>)), BulkReply(Nil),
               MultiReply(<<>>), MultiReply(<<Val(<<97>>)>>)}
  ELSE IF scn = "int"
    THEN LineReplies \cup {Stalled(LineReply(CR_INT, Itoa(1)))}
  ELSE IF scn = "slot"
    THEN {LineReply(CR_INLINE, <<115, 116, 114, 105, 110, 103>>),
          LineReply(CR_INLINE, OK), LineReply(CR_INT, Itoa(1)),
          BulkReply(Val(Itoa(1))), MultiReply(<<Val(<<97>>)>>),
          Stalled(LineReply(CR_INT, Itoa(1)))}
  ELSE IF scn = "grow"
    THEN {LineReply(CR_ERROR, ERR), BulkReply(Nil),
          MultiReply(<<Val(KeyOf(MaxPayload)), Val(KeyOf(MaxPayload))>>)}
  ELSE {LineReply(CR_INLINE, OK), BulkReply(Val(<<97>>))}

Budget(scn) == IF scn = "seq" THEN MaxCmds ELSE 1

---------------------------------------------------------------------------
(* State *)

St == [buf |-> buf, reply |-> reply, call |-> call, hist |-> hist, heap |-> heap]

Becomes(s) ==
  /\ buf' = s.buf
  /\ reply' = s.reply
  /\ call' = s.call
  /\ hist' = s.hist
  /\ heap' = s.heap
  /\ conn' = conn

(* No cr_moremem call has returned in the current command *)
NoGrowth ==
  [site |-> "", size |-> 0, ok |-> TRUE, rc |-> 0, pre |-> <<>>, post |-> <<>>]

(* The allocations of a connection: "null" before its malloc() and after  *)
(* a failed one, "live", or "freed"; the socket; where credis_connect is;  *)
(* and the call that made it fail.                                         *)
NoConn ==
  [pc |-> "new", rhnd |-> "null", ip |-> "null", data |-> "null",
   bulks |-> "null", fd |-> "none", fail |-> "none"]

(* What a credis_connect that succeeded has returned *)
Connected ==
  [pc |-> "open", rhnd |-> "live", ip |-> "live", data |-> "live",
   bulks |-> "live", fd |-> "open", fail |-> "none"]

(* cr_new, and credis_connect to a peer that has sent nothing yet *)
InitOf(scn, heaps) ==
  /\ heap \in heaps
  /\ conn = Connected
  /\ buf = [data |-> [k \in 1..CR_BUFFER_SIZE |-> Garbage(heap, k - 1)],
            idx |-> 0, len |-> 0, size |-> CR_BUFFER_SIZE, base |-> 0]
  /\ reply = [integer |-> 0, line |-> NULL, bulk |-> NULL,
              bulks |-> [k \in 1..CR_MULTIBULK_SIZE |-> WILD],
              size |-> CR_MULTIBULK_SIZE, len |-> 0]
  /\ call = [pc |-> "idle", cmd |-> NoCmd, site |-> "", kind |-> "", found |-> FALSE,
             start |-> 0, line |-> NULL, bnum |-> 0, blen |-> 0, i |-> 0, k |-> 0,
             at |-> 0, avail |-> 0]
  /\ net = [stream |-> <<>>, closed |-> FALSE]
  /\ hist = [scn |-> scn, ncmds |-> 0, returned |-> FALSE, rc |-> 0, decrc |-> 0,
             nrecv |-> 0, nlines |-> 0, recvAfterLine |-> FALSE,
             fault |-> "none", faultAt |-> "", mismatch |-> FALSE, sent |-> "none",
             midreset |-> FALSE, overscan |-> FALSE, wrote |-> {}, read |-> "none",
             advanced |-> TRUE,
             dec |-> <<>>, srv |-> NoReply, aligned |-> TRUE, grow |-> NoGrowth]

Init == InitOf("seq", {0, 1})
InitBulk == InitOf("bulk", {0, 1})
InitMulti == InitOf("multi", {0, 1})
InitTags == InitOf("tags", {0, 1})
InitInt == InitOf("int", {0, 1})
InitGrow == InitOf("grow", {0, 1})
InitSlot == InitOf("slot", {0, 1})

(* The same, on a heap whose fresh memory is zeroed *)
InitZeroed == InitOf("seq", {0})
InitBulkZeroed == InitOf("bulk", {0})
InitMultiZeroed == InitOf("multi", {0})
InitGrowZeroed == InitOf("grow", {0})

Fault(s, f) ==
  IF s.hist.fault # "none" THEN s
  ELSE [s EXCEPT !.hist.fault = f, !.hist.faultAt = s.call.kind]

(* vsnprintf(buf->data, buf->size, format, ap) for the command bytes wire *)
vsnprintf(b, wire) ==
  LET n == Min(Len(wire), b.size - 1)
  IN  [b EXCEPT !.data = Store(b.data, 0, SubSeq(wire, 1, n) \o <<NUL>>)]

(* snprintf(buf->data + at, avail, "...") for the bytes str: at most       *)
(* avail - 1 of them and a terminating zero; the result is Len(str).       *)
snprintf(b, at, avail, str) ==
  IF avail <= 0 THEN b
  ELSE [b EXCEPT !.data =
          Store(b.data, at, SubSeq(str, 1, Min(Len(str), avail - 1)) \o <<NUL>>)]

(* cr_appendstr after its snprintf calls: buf->len += rc, return 0 *)
cr_appendstr_ret(s, b, rc) ==
  [s EXCEPT !.buf = [b EXCEPT !.len = b.len + rc], !.call.k = s.call.k + 1]

RECURSIVE cr_appendstr_loop(_)

(* cr_appendstr(buf, str) for the part k of credis_mget up to its          *)
(* cr_moremem *)
cr_appendstr(s, str) ==
  LET b == s.buf
      avail == b.size - b.len
      rc == 1 + Len(str)
      b1 == snprintf(b, b.len, avail, <<32>> \o str)
  IN  IF rc >= avail
        THEN [s EXCEPT !.buf = b1, !.call.pc = "alloc", !.call.site = "append"]
        ELSE cr_appendstr_loop(cr_appendstr_ret(s, b1, rc))

(* The loop of credis_mget over the keys and the final "\r\n", then        *)
(* cr_sendandreceive up to its cr_senddata                                *)
cr_appendstr_loop(s) ==
  IF s.call.k <= Len(s.call.cmd.parts)
    THEN cr_appendstr(s, s.call.cmd.parts[s.call.k])
    ELSE [s EXCEPT !.call.pc = "send"]

(* cr_appendstr after cr_moremem has returned m *)
cr_appendstr_grown(s, m) ==
  IF m.rc # 0 THEN Finish(s, CREDIS_ERR_NOMEM)
  ELSE LET str == <<32>> \o s.call.cmd.parts[s.call.k]
           avail == m.buf.size - m.buf.len
       IN  cr_appendstr_loop(
             cr_appendstr_ret(s, snprintf(m.buf, m.buf.len, avail, str), Len(str)))

(* credis_mget: buf->len = snprintf(buf->data, buf->size, "MGET") *)
credis_mget_start(s) ==
  cr_appendstr_loop(
    [s EXCEPT !.buf = [snprintf(s.buf, 0, s.buf.size, MGET) EXCEPT !.len = Len(MGET)],
              !.call.k = 1])

(* cr_sendfandreceive from the second vsnprintf on: buf->len = rc, and    *)
(* cr_sendandreceive up to its cr_senddata                                *)
cr_sendfandreceive_send(s) ==
  [s EXCEPT !.buf.len = Len(s.call.cmd.wire), !.call.pc = "send"]

(* cr_sendandreceive without the comparison of rc with buf.len *)
cr_sendandreceive_nocompare(s, rc) ==
  IF rc < 0 THEN Finish(s, CREDIS_ERR_SEND) ELSE cr_receivereply(s)

(* cr_sendandreceive after cr_senddata has returned rc *)
cr_sendandreceive(s, rc) ==
  IF rc # s.buf.len
    THEN IF rc < 0 THEN Finish(s, CREDIS_ERR_SEND)
         ELSE Finish(s, CREDIS_ERR_TIMEOUT)
    ELSE cr_receivereply(s)

(* A command function is called: cr_sendfandreceive formats the command *)
Call(cmd) ==
  /\ conn.pc = "open"
  /\ call.pc = "idle"
  /\ hist.ncmds < Budget(hist.scn)
  /\ LET s0 == [St EXCEPT
                  !.call.cmd = cmd,
                  !.call.kind = "",
                  !.call.k = 0,
                  !.buf = vsnprintf(buf, cmd.wire),
                  !.hist = [hist EXCEPT
                              !.ncmds = hist.ncmds + 1, !.returned = FALSE,
                              !.rc = 0, !.decrc = 0, !.nrecv = 0, !.nlines = 0,
                              !.recvAfterLine = FALSE, !.fault = "none",
                              !.faultAt = "", !.mismatch = FALSE,
                              !.sent = "none",
                              !.midreset = FALSE,
                              !.overscan = FALSE,
                              !.wrote = {},
                              !.read = "none",
                              !.advanced = TRUE,
                              !.grow = NoGrowth,
                              !.dec = <<>>,
                              !.srv = NoReply,
                              !.aligned = (net.stream = <<>> /\ ~net.closed)]]
     IN  IF ~cmd.issue
           THEN Becomes(Finish([s0 EXCEPT !.buf = buf], 0))
         ELSE IF cmd.parts # <<>>
           THEN Becomes(credis_mget_start([s0 EXCEPT !.buf = buf]))
         ELSE IF Len(cmd.wire) >= buf.size
           THEN Becomes([s0 EXCEPT !.call.pc = "alloc", !.call.site = "fmt"])
           ELSE Becomes(cr_sendfandreceive_send(s0))
  /\ UNCHANGED net

(* The argument size of the cr_moremem call the program is in *)
MoreMemSize(s) ==
  IF s.call.site = "fmt" THEN Len(s.call.cmd.wire) - s.buf.size + 1
  ELSE IF s.call.site = "append"
    THEN (1 + Len(s.call.cmd.parts[s.call.k])) - (s.buf.size - s.buf.len) + 1
  ELSE 1

(* cr_moremem(buf, size) was called with the buffer pre and has returned   *)
(* m.rc, leaving the buffer m.buf.                                         *)
Grown(s, size, ok, m) ==
  [s EXCEPT !.hist.grow = [site |-> s.call.site, size |-> size, ok |-> ok,
                           rc |-> m.rc, pre |-> s.buf, post |-> m.buf]]

(* realloc() returns: to cr_moremem called by cr_sendfandreceive, by       *)
(* cr_appendstr or by cr_readln, or to cr_receivemultibulk                 *)
Realloc(ok, moved) ==
  /\ call.pc = "alloc"
  /\ IF call.site = "mb"
       THEN moved /\ Becomes(cr_receivemultibulk_realloc(
                              IF ok THEN St ELSE Fault(St, "nomem"), ok))
       ELSE LET m == cr_moremem(buf, heap, MoreMemSize(St), ok, moved)
                s == Grown(IF ok THEN St ELSE Fault(St, "nomem"),
                           MoreMemSize(St), ok, m)
            IN  IF call.site = "fmt"
                  THEN IF m.rc # 0
                         THEN Becomes(Finish(s, CREDIS_ERR_NOMEM))
                         ELSE Becomes(cr_sendfandreceive_send(
                                [s EXCEPT !.buf = vsnprintf(m.buf, call.cmd.wire)]))
                ELSE IF call.site = "append"
                  THEN Becomes(cr_appendstr_grown(s, m))
                ELSE IF m.rc # 0
                  THEN Becomes(cr_readln_return(s, CREDIS_ERR_NOMEM, call.line))
                  ELSE Becomes(cr_readln_receive([s EXCEPT !.buf = m.buf]))
  /\ UNCHANGED net

(* cr_senddata returns: everything sent, fewer bytes after a timeout, or   *)
(* -1 after an error.  The server answers a command it received with the  *)
(* reply r.                                                               *)
Send(outcome, r) ==
  /\ call.pc = "send"
  /\ IF outcome = "full"
       THEN /\ IF net.closed THEN r = NoReply ELSE r \in Replies(hist.scn)
            /\ net' = [net EXCEPT !.stream = net.stream \o r.wire]
            /\ Becomes(cr_sendandreceive(
                 [St EXCEPT !.hist.srv = r, !.hist.sent = "full"], buf.len))
       ELSE /\ r = NoReply
            /\ UNCHANGED net
            /\ IF outcome = "short"
                 THEN \E n \in 0..(buf.len - 1) :
                        Becomes(cr_sendandreceive(
                          [Fault(St, "sendshort") EXCEPT !.hist.sent = "short"], n))
                 ELSE Becomes(cr_sendandreceive(
                        [Fault(St, "senderr") EXCEPT !.hist.sent = "err"], -1))

(* cr_receivedata returns n > 0: recv() has stored n bytes, no more than  *)
(* the size it was given, at the address it was given                     *)
Recv(n) ==
  /\ call.pc = "recv"
  /\ n \in 1..Min(call.avail, Len(net.stream))
  /\ net' = [net EXCEPT !.stream = SubSeq(net.stream, n + 1, Len(net.stream))]
  /\ Becomes(cr_readln_received(
       [St EXCEPT !.buf.data = Store(buf.data, call.at, SubSeq(net.stream, 1, n))],
       n))

(* cr_receivedata returns 0: the peer has closed the connection *)
RecvEof ==
  /\ call.pc = "recv"
  /\ net' = [stream |-> <<>>, closed |-> TRUE]
  /\ Becomes(cr_readln_received(Fault(St, "eof"), 0))

(* cr_receivedata returns -2: select() timed out with nothing to read *)
RecvTimeout ==
  /\ call.pc = "recv"
  /\ net.stream = <<>>
  /\ UNCHANGED net
  /\ Becomes(cr_readln_received(Fault(St, "timeout"), -2))

(* cr_receivedata returns -1: select() or recv() failed *)
RecvError ==
  /\ call.pc = "recv"
  /\ UNCHANGED net
  /\ Becomes(cr_readln_received(Fault(St, "error"), -1))

Next ==
  \/ \E scn \in Scenarios : \E cmd \in Commands(scn) : scn = hist.scn /\ Call(cmd)
  \/ \E ok \in BOOLEAN, moved \in BOOLEAN : Realloc(ok, moved)
  \/ \E outcome \in {"full", "short", "err"} :
       \E r \in Replies(hist.scn) \cup {NoReply} : Send(outcome, r)
  \/ \E n \in 1..(buf.size - buf.len) : Recv(n)
  \/ RecvEof
  \/ RecvTimeout
  \/ RecvError

Spec == Init /\ [][Next]_vars
SpecBulk == InitBulk /\ [][Next]_vars
SpecMulti == InitMulti /\ [][Next]_vars
SpecTags == InitTags /\ [][Next]_vars
SpecInt == InitInt /\ [][Next]_vars
SpecGrow == InitGrow /\ [][Next]_vars
SpecSlot == InitSlot /\ [][Next]_vars
SpecZeroed == InitZeroed /\ [][Next]_vars
SpecBulkZeroed == InitBulkZeroed /\ [][Next]_vars
SpecMultiZeroed == InitMultiZeroed /\ [][Next]_vars
SpecGrowZeroed == InitGrowZeroed /\ [][Next]_vars

(* if (p != NULL) free(p) *)
Release(m) == IF m = "live" THEN "freed" ELSE m

(* cr_delete(rhnd): the three members are read through rhnd before rhnd    *)
(* is compared with NULL                                                   *)
cr_delete(c) ==
  IF c.rhnd = "null"
    THEN [c EXCEPT !.pc = "ub"]
    ELSE [c EXCEPT !.bulks = Release(c.bulks),
                   !.data = Release(c.data),
                   !.ip = Release(c.ip),
                   !.rhnd = Release(c.rhnd)]

(* cr_delete(rhnd); return NULL; in cr_new and at the label error of       *)
(* credis_connect, where the socket is closed first                        *)
credis_connect_error(c, why) ==
  LET d == cr_delete([c EXCEPT !.fd = IF c.fd = "open" THEN "closed" ELSE c.fd,
                               !.fail = why])
  IN  IF d.pc = "ub" THEN d ELSE [d EXCEPT !.pc = "null"]

(* credis_connect is called and calls cr_new, which calls calloc() *)
Connect ==
  /\ conn.pc = "new"
  /\ conn' = [conn EXCEPT !.pc = "calloc"]
  /\ UNCHANGED <<buf, reply, call, net, hist, heap>>

(* calloc() or one of the three malloc() of cr_new returns; after the      *)
(* last one cr_new sets the two sizes and credis_connect calls socket()    *)
Alloc(ok) ==
  /\ conn.pc \in {"calloc", "ip", "data", "bulks"}
  /\ UNCHANGED <<call, net, hist, heap>>
  /\ IF ~ok
       THEN /\ conn' = credis_connect_error(conn, "alloc")
            /\ UNCHANGED <<buf, reply>>
     ELSE IF conn.pc = "calloc"
       THEN /\ conn' = [conn EXCEPT !.rhnd = "live", !.pc = "ip"]
            /\ UNCHANGED <<buf, reply>>
     ELSE IF conn.pc = "ip"
       THEN /\ conn' = [conn EXCEPT !.ip = "live", !.pc = "data"]
            /\ UNCHANGED <<buf, reply>>
     ELSE IF conn.pc = "data"
       THEN /\ conn' = [conn EXCEPT !.data = "live", !.pc = "bulks"]
            /\ buf' = [buf EXCEPT !.data = [k \in 1..CR_BUFFER_SIZE |->
                                              Garbage(heap, k - 1)]]
            /\ UNCHANGED reply
       ELSE /\ conn' = [conn EXCEPT !.bulks = "live", !.pc = "socket"]
            /\ buf' = [buf EXCEPT !.size = CR_BUFFER_SIZE]
            /\ reply' = [reply EXCEPT
                           !.bulks = [k \in 1..CR_MULTIBULK_SIZE |-> WILD],
                           !.size = CR_MULTIBULK_SIZE]

(* socket() and the two setsockopt() return *)
Socket(outcome) ==
  /\ conn.pc = "socket"
  /\ conn' = IF outcome = "ok" THEN [conn EXCEPT !.fd = "open", !.pc = "resolve"]
             ELSE IF outcome = "nosocket" THEN credis_connect_error(conn, "socket")
             ELSE credis_connect_error([conn EXCEPT !.fd = "open"], "setsockopt")
  /\ UNCHANGED <<buf, reply, call, net, hist, heap>>

(* inet_aton() or gethostbyname() returns *)
Resolve(ok) ==
  /\ conn.pc = "resolve"
  /\ conn' = IF ok THEN [conn EXCEPT !.pc = "connect"]
             ELSE credis_connect_error(conn, "resolve")
  /\ UNCHANGED <<buf, reply, call, net, hist, heap>>

(* connect() returns, and credis_connect returns the handle or NULL *)
Established(ok) ==
  /\ conn.pc = "connect"
  /\ conn' = IF ok THEN [conn EXCEPT !.pc = "open"]
             ELSE credis_connect_error(conn, "connect")
  /\ UNCHANGED <<buf, reply, call, net, hist, heap>>

(* Before credis_connect: no handle yet; the fields are shown as calloc()  *)
(* will make them.                                                         *)
InitConnect ==
  /\ heap \in {0, 1}
  /\ conn = NoConn
  /\ buf = [data |-> <<>>, idx |-> 0, len |-> 0, size |-> 0, base |-> 0]
  /\ reply = [integer |-> 0, line |-> NULL, bulk |-> NULL,
              bulks |-> <<>>, size |-> 0, len |-> 0]
  /\ call = [pc |-> "idle", cmd |-> NoCmd, site |-> "", kind |-> "", found |-> FALSE,
             start |-> 0, line |-> NULL, bnum |-> 0, blen |-> 0, i |-> 0, k |-> 0,
             at |-> 0, avail |-> 0]
  /\ net = [stream |-> <<>>, closed |-> FALSE]
  /\ hist = [scn |-> "tags", ncmds |-> 0, returned |-> FALSE, rc |-> 0, decrc |-> 0,
             nrecv |-> 0, nlines |-> 0, recvAfterLine |-> FALSE,
             fault |-> "none", faultAt |-> "", mismatch |-> FALSE, sent |-> "none",
             midreset |-> FALSE, overscan |-> FALSE, wrote |-> {}, read |-> "none",
             advanced |-> TRUE,
             dec |-> <<>>, srv |-> NoReply, aligned |-> TRUE, grow |-> NoGrowth]

(* credis_connect, then commands on the connection it returned *)
NextConnect ==
  \/ Connect
  \/ \E ok \in BOOLEAN : Alloc(ok)
  \/ \E outcome \in {"ok", "nosocket", "nosockopt"} : Socket(outcome)
  \/ \E ok \in BOOLEAN : Resolve(ok)
  \/ \E ok \in BOOLEAN : Established(ok)
  \/ Next

SpecConnect == InitConnect /\ [][NextConnect]_vars

(* A call of cr_senddata or of cr_receivedata returns, select() having     *)
(* waited no longer than the timeout of the connection, or a realloc() of  *)
(* cr_moremem returns.                                                     *)
CallReturns ==
  \/ RecvError
  \/ RecvTimeout
  \/ RecvEof
  \/ \E n \in 1..(buf.size - buf.len) : Recv(n)
  \/ Send("err", NoReply)
  \/ \E outcome \in {"short", "full"} :
       \E r \in Replies(hist.scn) \cup {NoReply} : Send(outcome, r)
  \/ \E ok \in BOOLEAN, moved \in BOOLEAN : call.site # "mb" /\ Realloc(ok, moved)

(* cr_receivemultibulk is in its realloc(), and the realloc() returns *)
BulksPending == call.pc = "alloc" /\ call.site = "mb"
BulksRealloc == \E ok \in BOOLEAN : call.site = "mb" /\ Realloc(ok, TRUE)

(* Multi-bulk commands on a connection whose waits all end: weak fairness  *)
(* of the returns, that of BulksRealloc with its enabling condition        *)
(* BulksPending written out.                                               *)
SpecMultiFair ==
  /\ InitMulti
  /\ [][Next]_vars
  /\ WF_vars(CallReturns)
  /\ ([]<>(~BulksPending) \/ []<><<BulksRealloc>>_vars)

---------------------------------------------------------------------------
(* Properties *)

Returned == call.pc = "idle" /\ hist.returned

(* The pointer p designates the zero-terminated bytes pl in the buffer *)
Designates(p, pl) ==
  /\ p.base = buf.base
  /\ p.off >= 0
  /\ p.off + Len(pl) < buf.size
  /\ \A k \in 1..Len(pl) : ByteAt(buf, heap, p.off + k - 1) = pl[k]
  /\ ByteAt(buf, heap, p.off + Len(pl)) = NUL

(* The value e of the reply is handed back through the pointer p *)
HandsBack(p, e) == IF e.nil THEN p = NULL ELSE Designates(p, e.pl)

(* The server answered the command of this call, and nothing else was in  *)
(* flight, with a well-formed reply of the type the command expects       *)
Answered ==
  /\ hist.aligned
  /\ hist.srv # NoReply
  /\ hist.srv.wf
  /\ hist.srv.tag = call.cmd.recvtype

(* C1: a command expecting a bulk reply, answered "$N CRLF payload CRLF"   *)
(* with N >= 0 over receives that cut the reply anywhere and over any      *)
(* earlier buffer content, returns success with exactly the N payload      *)
(* bytes, having consumed the reply up to and including its last CR LF.    *)
C1_BulkReassembled ==
  (/\ Answered
   /\ hist.srv.tag = CR_BULK
   /\ ~hist.srv.elems[1].nil
   /\ hist.fault = "none")
  => /\ call.pc # "ub"
     /\ call.pc \in {"recv", "alloc"} => net.stream # <<>>
     /\ Returned =>
          /\ hist.rc = 0
          /\ Designates(reply.bulk, hist.srv.elems[1].pl)
          /\ net.stream = <<>>
          /\ buf.idx = buf.len

(* C2: when a bulk reply is expected and the whole reply is "$-1 CRLF",    *)
(* the command returns success with the nil marker, and no receive is      *)
(* issued once the header line has been read.                              *)
C2_NilBulk ==
  (/\ Answered
   /\ hist.srv = BulkReply(Nil)
   /\ hist.nlines >= 1)
  => /\ ~hist.recvAfterLine
     /\ Returned
     /\ hist.rc = 0
     /\ reply.bulk = NULL

(* C3: in every reachable state 0 <= cursor <= used <= capacity. *)
C3_BufferInvariant ==
  /\ 0 <= buf.idx
  /\ buf.idx <= buf.len
  /\ buf.len <= buf.size

(* C4: every value a successful command hands back still designates,    *)
(* when the command returns and until the next command, the bytes it       *)
(* designated when it was decoded: nothing later in the decode overwrote   *)
(* or relocated it.                                                        *)
C4_ValuesIntact ==
  (Returned /\ hist.decrc = 0)
  => \A k \in 1..Len(hist.dec) :
       LET v == hist.dec[k]
       IN  v.p = NULL \/ (v.p.base = buf.base /\ Designates(v.p, v.bytes))

(* The whole reply arrived in the one receive the call has performed *)
SingleReceive == hist.nrecv = 1 /\ net.stream = <<>> /\ hist.fault = "none"

(* C5: a well-formed multi-bulk reply of M <= CR_MULTIBULK_SIZE elements   *)
(* delivered in a single receive decodes to exactly M elements in server   *)
(* order, nil elements as NULL entries in place, and the command returns M.*)
C5_MultiBulkDecoded ==
  (/\ Answered
   /\ hist.srv.tag = CR_MULTIBULK
   /\ hist.srv.count <= CR_MULTIBULK_SIZE
   /\ SingleReceive)
  => /\ Returned
     /\ hist.rc = hist.srv.count
     /\ reply.len = hist.srv.count
     /\ \A k \in 1..hist.srv.count : HandsBack(reply.bulks[k], hist.srv.elems[k])

C5_Witness ==
  /\ Returned /\ Answered /\ SingleReceive
  /\ hist.srv.count = CR_MULTIBULK_SIZE
  /\ hist.srv.elems[1].nil
  /\ ~hist.srv.elems[2].nil
  /\ hist.rc = CR_MULTIBULK_SIZE

(* The first line of the reply has a tag that is neither the expected one  *)
(* nor the error tag                                                       *)
TagMismatch ==
  /\ hist.aligned
  /\ hist.srv # NoReply
  /\ hist.srv.tag # call.cmd.recvtype
  /\ hist.srv.tag # CR_ERROR

(* C6: once the first line of a reply with a mismatching tag has been      *)
(* read, the command has returned ProtocolError: exactly that line was     *)
(* read and no receive was issued after it.                                *)
C6_TagMismatch ==
  (TagMismatch /\ hist.nlines >= 1)
  => /\ Returned
     /\ hist.rc = CREDIS_ERR_PROTOCOL
     /\ hist.nlines = 1
     /\ ~hist.recvAfterLine

C6_Witness ==
  /\ TagMismatch /\ Returned
  /\ call.cmd.recvtype = CR_INLINE
  /\ hist.srv.tag = CR_BULK
  /\ net.stream # <<>>
  /\ hist.rc = CREDIS_ERR_PROTOCOL

(* C7: a receive wait that times out with no bytes available makes the     *)
(* command return CREDIS_ERR_TIMEOUT.                                      *)
C7_TimeoutReported ==
  (Returned /\ hist.fault = "timeout") => hist.rc = CREDIS_ERR_TIMEOUT

(* C8: when the line read for a bulk payload of declared length N >= 0 has *)
(* a length other than N, the command returns ProtocolError.               *)
C8_LengthMismatch ==
  (Returned /\ hist.mismatch) => hist.decrc = CREDIS_ERR_PROTOCOL

(* C9: when the peer closes after the header "$N" (N >= 0) of a top-level  *)
(* bulk reply was read and before the payload's terminator was received,   *)
(* the command returns an error.                                           *)
C9_EofInBulk ==
  (/\ Returned
   /\ hist.fault = "eof"
   /\ hist.faultAt = "bulk"
   /\ call.blen >= 0)
  => hist.rc # 0

(* C10: a multi-bulk decode of declared count M > 0 returns success only   *)
(* when M elements were completely received; EOF, a timeout or a receive   *)
(* error before that gives ProtocolError.                                  *)
C10_MultiBulkComplete ==
  (/\ Returned
   /\ hist.aligned
   /\ call.cmd.recvtype = CR_MULTIBULK
   /\ hist.srv.tag = CR_MULTIBULK
   /\ hist.srv.count > 0
   /\ hist.nlines >= 1)
  => /\ hist.decrc = 0 =>
          /\ hist.fault = "none"
          /\ hist.srv.wf => net.stream = <<>>
     /\ (hist.fault \in {"eof", "timeout", "error"}
         /\ hist.faultAt \in {"mbhead", "mbbody"})
        => hist.decrc = CREDIS_ERR_PROTOCOL

(* The server answered this call with an error line "-text CRLF" *)
ErrorAnswered ==
  /\ hist.aligned
  /\ hist.srv # NoReply
  /\ hist.srv.tag = CR_ERROR

C12_ReceiveAfterSend ==
  /\ (call.pc = "recv" \/ hist.nrecv > 0 \/ hist.nlines > 0) => hist.sent = "full"
  /\ hist.sent \in {"short", "err"}
       => /\ Returned
          /\ hist.nrecv = 0
          /\ hist.nlines = 0
          /\ hist.rc = IF hist.sent = "short" THEN CREDIS_ERR_TIMEOUT
                       ELSE CREDIS_ERR_SEND

C12_Witness ==
  /\ Returned
  /\ hist.sent = "short"
  /\ hist.rc = CREDIS_ERR_TIMEOUT
  /\ call.cmd = credis_get(LongKey)
  /\ buf.size > CR_BUFFER_SIZE

(* C13: a command function that has returned has sent its one command, or  *)
(* failed to allocate the memory to format it, and after a complete send   *)
(* it has run one reply decode, which issues at least one receive; this    *)
(* for INCRBY and DECRBY with every value, 0 and negative ones included.   *)
C13_OneRoundTrip ==
  Returned
  => /\ hist.sent # "none" \/ hist.rc = CREDIS_ERR_NOMEM
     /\ hist.sent = "full" => hist.nrecv >= 1

(* C14: the commands that report a flag return -1 when the server answers  *)
(* ":0" and 0 when it answers ":1".                                        *)
C14_FlagResult ==
  (/\ Returned
   /\ call.cmd \in FlagCommands
   /\ hist.aligned
   /\ hist.srv \in {LineReply(CR_INT, Itoa(0)), LineReply(CR_INT, Itoa(1))}
   /\ hist.fault = "none")
  => hist.rc = IF hist.srv = LineReply(CR_INT, Itoa(0)) THEN -1 ELSE 0

(* A cr_moremem call of the current command has grown the buffer *)
HasGrown == hist.grow.site # "" /\ hist.grow.ok

(* C15: across every growth of the buffer, from command formatting or from *)
(* cr_readln, the bytes in [0, used) and used and cursor are unchanged;    *)
(* the capacity never decreases and is always a positive multiple of       *)
(* CR_BUFFER_SIZE.                                                        *)
C15_GrowthPreserves ==
  /\ [](/\ buf.size > 0
        /\ buf.size % CR_BUFFER_SIZE = 0
        /\ HasGrown =>
             LET pre == hist.grow.pre
                 post == hist.grow.post
             IN  /\ post.len = pre.len
                 /\ post.idx = pre.idx
                 /\ post.size > pre.size
                 /\ \A k \in 1..pre.len : post.data[k] = pre.data[k])
  /\ [][buf'.size >= buf.size]_vars

C15_Witness ==
  /\ HasGrown
  /\ hist.grow.site = "readln"
  /\ hist.grow.pre.len = CR_BUFFER_SIZE - 1
  /\ hist.grow.pre.idx > 0
  /\ buf.size = 2 * CR_BUFFER_SIZE
  /\ Returned /\ hist.rc = 2

(* n bytes rounded up to whole chunks *)
CeilChunks(n) ==
  ((n + CR_BUFFER_SIZE - 1) \div CR_BUFFER_SIZE) * CR_BUFFER_SIZE

(* C16: cr_moremem(buf, size) raises the capacity by exactly size rounded  *)
(* up to whole chunks, exact multiples of CR_BUFFER_SIZE included, and     *)
(* cr_readln grows the buffer only when fewer than size bytes are free     *)
(* behind used.                                                           *)
C16_GrowthAmount ==
  HasGrown
  => /\ hist.grow.post.size - hist.grow.pre.size = CeilChunks(hist.grow.size)
     /\ hist.grow.site = "readln"
          => hist.grow.pre.size - hist.grow.pre.len < hist.grow.size

(* C17: when realloc() fails, cr_moremem reports the failure and leaves     *)
(* data, used, cursor and capacity as they were; in no state does the      *)
(* capacity differ from the size of the storage.                          *)
C17_FailedGrowth ==
  /\ Len(buf.data) = buf.size
  /\ (hist.grow.site # "" /\ ~hist.grow.ok)
       => /\ hist.grow.rc = -1
          /\ hist.grow.post = hist.grow.pre
          /\ buf = hist.grow.pre

C17_Witness ==
  /\ hist.grow.site = "append"
  /\ ~hist.grow.ok
  /\ hist.grow.pre.size = 2 * CR_BUFFER_SIZE
  /\ hist.grow.pre.len > CR_BUFFER_SIZE
  /\ Returned

(* C20: whatever the length of the formatted command, below, at or above   *)
(* the capacity, when cr_senddata is called used is the length of the      *)
(* whole command, used is below the capacity and the bytes [0, used) are   *)
(* the whole command; and when cr_appendstr of credis_mget asks for more   *)
(* memory, the bytes [0, used) are the command as far as it was appended.  *)
C20_FormattedWhole ==
  /\ call.pc = "send"
       => /\ buf.len = Len(call.cmd.wire)
          /\ buf.len < buf.size
          /\ SubSeq(buf.data, 1, buf.len) = call.cmd.wire
  /\ (call.pc = "alloc" /\ call.site = "append")
       => /\ buf.len < buf.size
          /\ buf.len < Len(call.cmd.wire)
          /\ SubSeq(buf.data, 1, buf.len) = SubSeq(call.cmd.wire, 1, buf.len)

C20_Witness ==
  /\ call.pc = "send"
  /\ call.cmd = credis_mget(<<LongKey, LongKey>>)
  /\ hist.grow.site = "append"
  /\ buf.size = 3 * CR_BUFFER_SIZE
  /\ buf.len = 2 * LongKeyLen + 9

(* C18: when cr_moremem fails during a command call, while the command is  *)
(* formatted or while a line of the reply is read, the call returns        *)
(* CREDIS_ERR_NOMEM, and it returns at once, without another send or       *)
(* receive.                                                               *)
C18_NoMemReported ==
  (hist.grow.site # "" /\ ~hist.grow.ok)
  => /\ Returned
     /\ hist.rc = CREDIS_ERR_NOMEM

(* C19: between the start of a reply decode and its return, cr_readln never *)
(* sets used and cursor back to 0.                                         *)
C19_NoResetMidDecode == ~hist.midreset

(* C21: every byte cr_findnl reads for cr_readln lies in                   *)
(* [cursor + start, used): none at an offset >= used or >= capacity, none   *)
(* at a negative offset, whatever start the decoders pass.                 *)
C21_ScanWithinUsed == ~hist.overscan

(* C22: during a multi-bulk decode of any declared count M, above           *)
(* CR_MULTIBULK_SIZE included, every store bulks[i] is inside the array:   *)
(* once the growth step is over the array has room for the M elements, its *)
(* recorded size is its allocation, and it never gets smaller than it was;  *)
(* this already when every realloc() succeeds.                             *)
C22_BulksInBounds ==
  hist.fault # "nomem"
  => /\ Len(reply.bulks) = reply.size
     /\ Len(reply.bulks) >= CR_MULTIBULK_SIZE
     /\ (/\ call.kind \in {"mbhead", "mbbody"}
         /\ call.pc \in {"recv", "ub"}
         /\ call.bnum > 0)
          => call.i + call.bnum <= Len(reply.bulks)

(* C23: the field of the reply slot that a command function reads after a  *)
(* successful call, for its return value or its output parameter, was      *)
(* written by the decode of that call's reply.                             *)
C23_ReadsWhatDecodeWrote ==
  hist.read # "none" => hist.read \in hist.wrote

(* C24: every receive cr_readln issues is given the free region that       *)
(* starts at used and is at least CR_BUFFER_SIZE/10 bytes long, so never   *)
(* empty; after every receive of bytes used is the start of that region    *)
(* plus their number, and used <= capacity holds.                          *)
C24_ReceiveRegion ==
  /\ call.pc = "recv"
       => /\ call.at = buf.len
          /\ call.avail = buf.size - buf.len
          /\ call.avail >= CR_BUFFER_SIZE \div 10
          /\ call.avail > 0
  /\ hist.advanced
  /\ buf.len <= buf.size

C24_Witness ==
  /\ call.pc = "recv"
  /\ hist.grow.site = "readln"
  /\ hist.grow.ok
  /\ hist.nrecv = 2
  /\ call.at = CR_BUFFER_SIZE - 1
  /\ call.avail = CR_BUFFER_SIZE + 1


(* C25: on a connection whose commands are each answered by one           *)
(* well-formed reply, a command that returns success has consumed exactly  *)
(* the bytes of its reply: the cursor equals the used length, nothing of   *)
(* the reply is left unread in the socket, and so the next decode starts   *)
(* at the type tag of the next reply.                                      *)
C25_ExactConsumption ==
  (/\ Returned
   /\ hist.decrc = 0
   /\ Answered
   /\ hist.fault = "none")
  => /\ buf.idx = buf.len
     /\ net.stream = <<>>


(* C26: every command call terminates when each wait of a receive ends     *)
(* and the peer sends finitely many bytes: whatever the reply holds, a     *)
(* count of -1 or a length of -2 included, the loop of cr_readln and the   *)
(* loop of cr_receivemultibulk end, and the call returns to its caller or  *)
(* stops in undefined behaviour.                                           *)
C26_CallTerminates == (call.pc # "idle") ~> (call.pc \in {"idle", "ub"})


(* A reply "*-1" followed by a nil element: the loop has counted from -1   *)
(* to -2 and the call has returned once the receive timed out              *)
C26_Witness ==
  /\ Returned
  /\ hist.srv.count = -1
  /\ call.bnum = -2
  /\ hist.fault = "timeout"
  /\ hist.rc = CREDIS_ERR_PROTOCOL


(* C27: when an allocation made while creating a connection fails, the     *)
(* handle, the address string, the buffer or the multi-bulk array,         *)
(* credis_connect returns NULL with everything it had allocated released,  *)
(* and no null handle is dereferenced.                                     *)
C27_AllocationFailure ==
  conn.fail = "alloc"
  => /\ conn.pc = "null"
     /\ \A m \in {"rhnd", "ip", "data", "bulks"} : conn[m] # "live"

=============================================================================
